---- MODULE Spec2Model ----
(***************************************************************************)
(* Model of aws-dummy-backend (src/index.js): an Express service that      *)
(* authenticates to MariaDB with IAM tokens.  The model covers the token   *)
(* provider (getAuthToken), the connection factory (getConnection), the    *)
(* manual pool (activeConnections, getPoolConnection, releaseConnection),  *)
(* the startup test, the /health and /students handlers and the           *)
(* SIGTERM/SIGINT handlers.                                                *)
(*                                                                         *)
(* Strings are modelled as sequences of word tokens, so that               *)
(* String.prototype.includes is a real contiguous-subsequence test and     *)
(* string concatenation is \o.  "permissions" is tokenised as              *)
(* "permission","s" so that it still contains "permission".                *)
(***************************************************************************)
EXTENDS Integers, Sequences, FiniteSets, TLC

\* ------------------------------------------------------------------ bounds
\* Number of getAuthToken calls (and so of connection attempts) explored.
MaxFetches == 2

\* Number of connections mariadb.createConnection returns in a run.
MaxConns == 2

\* dbConfig.connectionLimit (src/index.js:17); the "|| 5" default of line 104
\* is never taken because the configured value is truthy.
connectionLimit == 5

\* ------------------------------------------------------------- strings
\* haystack.includes(needle)
Includes(msg, pat) ==
    \E i \in 1..(Len(msg) - Len(pat) + 1) : SubSeq(msg, i, i + Len(pat) - 1) = pat

\* "Permission denied: EC2 instance doesn't have appropriate IAM role for RDS access"
MsgPermissionIAM ==
    <<"Permission", "denied", ":", "EC2", "instance", "doesn't", "have",
      "appropriate", "IAM", "role", "for", "RDS", "access">>

\* "Permission denied: Database access denied. Check EC2 IAM role permissions."
MsgPermissionDB ==
    <<"Permission", "denied", ":", "Database", "access", "denied", ".",
      "Check", "EC2", "IAM", "role", "permission", "s", ".">>

\* "Health check failed: "
MsgHealthFailed == <<"Health", "check", "failed", ":">>

\* "Failed to retrieve student data."
MsgStudentsFailed == <<"Failed", "to", "retrieve", "student", "data", ".">>

\* "I am OK. Database connection successful."
MsgHealthOK == <<"I", "am", "OK", ".", "Database", "connection", "successful", ".">>

\* ------------------------------------------------------------- errors
\* A JavaScript error object: name, message (hasMessage = FALSE when the
\* message property is undefined) and the driver's code ("none" if absent).
Err(n, h, m, c) == [name |-> n, hasMessage |-> h, message |-> m, code |-> c]

NoError == Err("none", FALSE, <<>>, "none")

\* new Error(msg)
NewError(m) == Err("Error", TRUE, m, "none")

\* The TypeError raised by evaluating undefined.includes(...)
TypeErrorIncludes ==
    Err("TypeError", TRUE,
        <<"Cannot", "read", "properties", "of", "undefined">>, "none")

\* JavaScript truthiness of err.message: undefined and "" are falsy.
Truthy(e) == e.hasMessage /\ e.message # <<>>

\* String(err.message) as used by "..." + err.message
MessageText(e) == IF e.hasMessage THEN e.message ELSE <<"undefined">>

\* Failures the identity service / SDK may raise from the token request.
TokenErrors ==
    { Err("CredentialsProviderError", TRUE, <<"no", "provider">>, "none"),
      Err("AccessDenied", FALSE, <<>>, "none"),
      Err("Error", TRUE, <<"missing", "credentials">>, "none"),
      Err("Error", TRUE, <<"no", "permission">>, "none"),
      Err("Error", TRUE, <<"User", "access", "denied">>, "none"),
      Err("Error", TRUE, <<"Access", "denied">>, "none"),
      Err("Error", TRUE, <<"connect", "timeout">>, "none"),
      Err("Error", FALSE, <<>>, "none") }

\* Failures mariadb.createConnection may raise.
ConnectErrors ==
    { Err("SqlError", TRUE, <<"Access", "denied", "for", "user">>,
          "ER_ACCESS_DENIED_ERROR"),
      Err("SqlError", TRUE, <<"connect", "ECONNREFUSED">>, "ECONNREFUSED"),
      Err("SqlError", TRUE, <<"access", "denied">>, "none"),
      Err("SqlError", FALSE, <<>>, "ETIMEDOUT") }

\* Failures conn.ping() / conn.query() may raise.
UseErrors ==
    { Err("SqlError", TRUE, <<"Table", "doesn't", "exist">>, "ER_NO_SUCH_TABLE"),
      Err("SqlError", TRUE, <<"Access", "denied">>, "ER_ACCESS_DENIED_ERROR"),
      Err("SqlError", TRUE, <<"access", "denied">>, "ER_TABLEACCESS_DENIED_ERROR"),
      Err("SqlError", FALSE, <<>>, "ER_ACCESS_DENIED_ERROR") }

\* ------------------------------------------------- token provider
\* Variant: the message is not searched for "access denied".
getAuthTokenCatchNoAccessDenied(e) ==
    IF e.name = "CredentialsProviderError" \/ e.name = "AccessDenied"
    THEN NewError(MsgPermissionIAM)
    ELSE IF ~e.hasMessage
    THEN TypeErrorIncludes
    ELSE IF \/ Includes(e.message, <<"credentials">>)
            \/ Includes(e.message, <<"permission">>)
    THEN NewError(MsgPermissionIAM)
    ELSE e

\* The catch block of getAuthToken: the error it throws for underlying error e.
getAuthTokenCatch(e) ==
    IF e.name = "CredentialsProviderError" \/ e.name = "AccessDenied"
    THEN NewError(MsgPermissionIAM)
    ELSE IF ~e.hasMessage
    THEN TypeErrorIncludes       \* err.message.includes on undefined
    ELSE IF \/ Includes(e.message, <<"credentials">>)
            \/ Includes(e.message, <<"permission">>)
            \/ Includes(e.message, <<"access", "denied">>)
    THEN NewError(MsgPermissionIAM)
    ELSE e

\* ------------------------------------------------- connection factory
\* Variant: the error's code is not looked at.
getConnectionCatchNoCode(e) == e

\* The catch block of getConnection: the error it throws for error e, which is
\* either what getAuthToken threw or what mariadb.createConnection threw.
getConnectionCatch(e) ==
    IF Truthy(e) /\ Includes(e.message, <<"Permission", "denied">>)
    THEN e
    ELSE IF e.code = "ER_ACCESS_DENIED_ERROR"
    THEN NewError(MsgPermissionDB)
    ELSE e

\* ------------------------------------------------- responses
Response(s, k, m) == [status |-> s, kind |-> k, message |-> m]

NoResponse == Response(0, "none", <<>>)

\* The catch block of the /health handler.
healthCatch(e) ==
    IF Truthy(e) /\ Includes(e.message, <<"Permission", "denied">>)
    THEN Response(403, "status_error", MsgPermissionIAM)
    ELSE Response(500, "status_error", MsgHealthFailed \o MessageText(e))

\* Variant: the 500 answer of /students carries the error's own message.
studentsCatchLeaky(e) ==
    IF Truthy(e) /\ ( \/ Includes(e.message, <<"Permission", "denied">>)
                      \/ Includes(e.message, <<"access", "denied">>)
                      \/ e.code = "ER_ACCESS_DENIED_ERROR" )
    THEN Response(403, "error", MsgPermissionIAM)
    ELSE Response(500, "error", MessageText(e))

\* Variant: the error's code is not looked at.
studentsCatchNoCode(e) ==
    IF Truthy(e) /\ ( \/ Includes(e.message, <<"Permission", "denied">>)
                      \/ Includes(e.message, <<"access", "denied">>) )
    THEN Response(403, "error", MsgPermissionIAM)
    ELSE Response(500, "error", MsgStudentsFailed)

\* The catch block of the /students handler.
studentsCatch(e) ==
    IF Truthy(e) /\ ( \/ Includes(e.message, <<"Permission", "denied">>)
                      \/ Includes(e.message, <<"access", "denied">>)
                      \/ e.code = "ER_ACCESS_DENIED_ERROR" )
    THEN Response(403, "error", MsgPermissionIAM)
    ELSE Response(500, "error", MsgStudentsFailed)

\* ------------------------------------------------------------- state
\* Request tasks explored besides the startup test (task 0).
NumTasks == 1

Tasks == 0..NumTasks
StartupTask == 0
ConnIds == 1..MaxConns

\* What a call to conn.end() may do: close the connection, throw
\* synchronously, or return a promise that rejects.
EndOutcomes == {"ok", "throw", "reject"}

VARIABLES
    activeConnections,  \* the manual pool: a sequence of connection ids
    valid,              \* valid[c]: what conn.isValid() answers for connection c
    nextConn,           \* number of connections mariadb.createConnection returned
    tokenFetches,       \* number of getAuthToken calls
    attempts,           \* number of getConnection calls
    task,               \* per task: kind, pc (the await it is suspended at), conn
    proc,               \* "running", "exit0" (process.exit(0)) or "crashed"
    pendingRejection,   \* a rejected promise nobody handles is pending
    shutdowns,          \* outcomes of the Promise.all calls still pending
    lastPush,           \* the connection last released while live and under
                        \* the cap, until getPoolConnection pops (else 0)
    held,               \* the connections callers that keep to the pool's
                        \* protocol hold at the moment
    obs                 \* what the last completed operation did (history)

vars == <<activeConnections, valid, nextConn, tokenFetches, attempts, task,
          proc, pendingRejection, shutdowns, lastPush, held, obs>>

Range(s) == { s[i] : i \in 1..Len(s) }

\* A task: what it runs (kind), the await it is suspended at (pc), its
\* connection (conn), the getAuthToken call whose token its getConnection
\* waits for (fetchNo, counting the calls from 1), the token it gave
\* createConnection as password (token, named by the call that returned it)
\* and, for a caller of getPoolConnection, whether it keeps to the pool's
\* protocol (holder).
TaskAt(k, l, f, h) ==
    [kind |-> k, pc |-> l, conn |-> 0, fetchNo |-> f, token |-> 0,
     holder |-> h]

IdleTask == TaskAt("none", "idle", 0, FALSE)

\* A getConnection that keeps the token of the previous call.
getConnectionCallCached(n) ==
    IF n > 0 THEN [fetches |-> n, fetchNo |-> n]
    ELSE [fetches |-> n + 1, fetchNo |-> n + 1]

\* A getConnection that asks for a token twice and uses the second.
getConnectionCallTwice(n) == [fetches |-> n + 2, fetchNo |-> n + 2]

\* getConnection is called when getAuthToken has been called n times: it calls
\* getAuthToken once more and awaits that call's token.
getConnectionCall(n) == [fetches |-> n + 1, fetchNo |-> n + 1]

\* A new request or call runs as the lowest-numbered idle task (the tasks are
\* interchangeable; the startup test keeps task 0).
FreeSlot(t) ==
    /\ t # StartupTask
    /\ task[t].pc = "idle"
    /\ \A u \in Tasks : (u # StartupTask /\ u < t) => task[u].pc # "idle"

\* An observation: the operation (op), how it ended (phase), where it failed
\* (stage) and on what underlying failure (cause), the error it raised (err),
\* the response sent (resp), the connection it returned, was given or used
\* (conn) and what isValid() answered for it (connValid), the end() calls it
\* made (ends), the set of pooled candidates it discarded (discarded), the
\* pool's length when it was called (sizeBefore), the getAuthToken calls it
\* made (fetches), the connection a release had just pushed when it was called
\* (pushedBefore), what isValid() answered for that one (pushedLive) and
\* whether the operation threw to its caller (threw), the error getAuthToken
\* raised (authErr) and whether the connection getPoolConnection returned was
\* held by a caller already (wasHeld).
NoObs ==
    [op |-> "none", phase |-> "none", stage |-> "none",
     cause |-> NoError, err |-> NoError, resp |-> NoResponse, conn |-> 0,
     connValid |-> FALSE, ends |-> 0, discarded |-> {}, sizeBefore |-> 0,
     fetches |-> 0, pushedBefore |-> 0, pushedLive |-> FALSE, threw |-> FALSE,
     authErr |-> NoError, wasHeld |-> FALSE]

\* The state once the module's top-level code has run: the pool is empty and
\* the startup test has called getConnection, which awaits its token.
Init ==
    /\ activeConnections = <<>>
    /\ valid = [c \in ConnIds |-> FALSE]
    /\ nextConn = 0
    /\ tokenFetches = getConnectionCall(0).fetches
    /\ attempts = 1
    /\ task = [t \in Tasks |->
                 IF t = StartupTask
                 THEN TaskAt("startup", "token",
                             getConnectionCall(0).fetchNo, FALSE)
                 ELSE IdleTask]
    /\ proc = "running"
    /\ pendingRejection = FALSE
    /\ shutdowns = {}
    /\ lastPush = 0
    /\ held = {}
    /\ obs = NoObs

\* ------------------------------------------------------------- end()
\* The effect on isValid() of calling end() on each connection of the
\* sequence cs, o[c] being what end() does on connection c: a successful
\* end() closes the connection.
validAfterEnd(cs, o) ==
    [c \in ConnIds |-> IF c \in Range(cs) /\ o[c] = "ok" THEN FALSE ELSE valid[c]]

\* "try { conn.end(); } catch (e) { }": the returned promise is dropped, so a
\* synchronous throw is swallowed and a rejection is left unhandled.
EndIgnored(cs, o) ==
    /\ valid' = validAfterEnd(cs, o)
    /\ pendingRejection' =
          (pendingRejection \/ \E c \in Range(cs) : o[c] = "reject")

\* ------------------------------------------------------------- the pool
\* The synchronous part of getPoolConnection on pool p with validity v: pop
\* candidates until one passes "conn && !conn.isValid()" or the pool is empty.
\* Answers the pool left, the candidates discarded (each got end() called),
\* the connection returned (0 when none) and whether getConnection is called.
\* Variant: candidates are taken from the front of the pool (shift, not pop).
RECURSIVE getPoolConnectionScanShift(_, _)
getPoolConnectionScanShift(p, v) ==
    IF Len(p) > 0
    THEN LET conn == p[1]
             rest == SubSeq(p, 2, Len(p))
         IN  IF conn # 0 /\ ~v[conn]
             THEN LET r == getPoolConnectionScanShift(rest, v)
                  IN  [r EXCEPT !.discarded = <<conn>> \o @]
             ELSE [pool |-> rest, discarded |-> <<>>, conn |-> conn,
                   create |-> FALSE]
    ELSE [pool |-> p, discarded |-> <<>>, conn |-> 0, create |-> TRUE]

\* Variant: the popped candidate is returned without asking isValid().
getPoolConnectionScanNoCheck(p, v) ==
    IF Len(p) > 0
    THEN [pool |-> SubSeq(p, 1, Len(p) - 1), discarded |-> <<>>,
          conn |-> p[Len(p)], create |-> FALSE]
    ELSE [pool |-> p, discarded |-> <<>>, conn |-> 0, create |-> TRUE]

\* Variant: a dead candidate is closed when it is found and again before the
\* next one is tried.
RECURSIVE getPoolConnectionScanEndTwice(_, _)
getPoolConnectionScanEndTwice(p, v) ==
    IF Len(p) > 0
    THEN LET conn == p[Len(p)]
             rest == SubSeq(p, 1, Len(p) - 1)
         IN  IF conn # 0 /\ ~v[conn]
             THEN LET r == getPoolConnectionScanEndTwice(rest, v)
                  IN  [r EXCEPT !.discarded = <<conn, conn>> \o @]
             ELSE [pool |-> rest, discarded |-> <<>>, conn |-> conn,
                   create |-> FALSE]
    ELSE [pool |-> p, discarded |-> <<>>, conn |-> 0, create |-> TRUE]

\* Variant: the live candidate is read from the end of the pool and left in it.
RECURSIVE getPoolConnectionScanPeek(_, _)
getPoolConnectionScanPeek(p, v) ==
    IF Len(p) > 0
    THEN LET conn == p[Len(p)]
             rest == SubSeq(p, 1, Len(p) - 1)
         IN  IF conn # 0 /\ ~v[conn]
             THEN LET r == getPoolConnectionScanPeek(rest, v)
                  IN  [r EXCEPT !.discarded = <<conn>> \o @]
             ELSE [pool |-> p, discarded |-> <<>>, conn |-> conn,
                   create |-> FALSE]
    ELSE [pool |-> p, discarded |-> <<>>, conn |-> 0, create |-> TRUE]

RECURSIVE getPoolConnectionScan(_, _)
getPoolConnectionScan(p, v) ==
    IF Len(p) > 0
    THEN LET conn == p[Len(p)]
             rest == SubSeq(p, 1, Len(p) - 1)
         IN  IF conn # 0 /\ ~v[conn]
             THEN LET r == getPoolConnectionScan(rest, v)
                  IN  [r EXCEPT !.discarded = <<conn>> \o @]
             ELSE [pool |-> rest, discarded |-> <<>>, conn |-> conn,
                   create |-> FALSE]
    ELSE [pool |-> p, discarded |-> <<>>, conn |-> 0, create |-> TRUE]

\* Variant: the cap is compared with <= instead of <.
releaseConnectionResultOffByOne(p, conn, live, o) ==
    IF conn # 0 /\ live
    THEN IF Len(p) <= connectionLimit
         THEN [pool |-> Append(p, conn), ended |-> <<>>, threw |-> FALSE]
         ELSE [pool |-> p, ended |-> <<conn>>, threw |-> FALSE]
    ELSE [pool |-> p, ended |-> <<>>, threw |-> FALSE]

\* Variant: the connection is kept without asking isValid().
releaseConnectionResultNoCheck(p, conn, live, o) ==
    IF conn # 0
    THEN IF Len(p) < connectionLimit
         THEN [pool |-> Append(p, conn), ended |-> <<>>, threw |-> FALSE]
         ELSE [pool |-> p, ended |-> <<conn>>, threw |-> FALSE]
    ELSE [pool |-> p, ended |-> <<>>, threw |-> FALSE]

\* A releaseConnection that pools the connection below the limit and closes it
\* as well.
releaseConnectionResultCloseToo(p, conn, live, o) ==
    IF conn # 0 /\ live
    THEN IF Len(p) < connectionLimit
         THEN [pool |-> Append(p, conn), ended |-> <<conn>>, threw |-> FALSE]
         ELSE [pool |-> p, ended |-> <<conn>>, threw |-> FALSE]
    ELSE [pool |-> p, ended |-> <<>>, threw |-> FALSE]

\* releaseConnection(conn) on pool p, where live is conn.isValid() and o is
\* what conn.end() does if it gets called.  Answers the pool afterwards, the
\* connections end() was called on, and whether the call threw.
releaseConnectionResult(p, conn, live, o) ==
    IF conn # 0 /\ live
    THEN IF Len(p) < connectionLimit
         THEN [pool |-> Append(p, conn), ended |-> <<>>, threw |-> FALSE]
         ELSE [pool |-> p, ended |-> <<conn>>, threw |-> FALSE]
    ELSE [pool |-> p, ended |-> <<>>, threw |-> FALSE]

\* A caller invokes releaseConnection(conn) with any connection created so far,
\* or with null (0); a caller that held it holds it no longer.
Release(conn) ==
    /\ proc = "running"
    /\ conn \in 0..nextConn
    /\ \E o \in EndOutcomes :
         LET live == conn # 0 /\ valid[conn]
             r == releaseConnectionResult(activeConnections, conn, live, o)
         IN  /\ Len(r.ended) = 0 => o = "ok"
             /\ activeConnections' = r.pool
             /\ EndIgnored(r.ended, [c \in Range(r.ended) |-> o])
             /\ lastPush' = IF live /\ Len(activeConnections) < connectionLimit
                            THEN conn ELSE lastPush
             /\ obs' = [NoObs EXCEPT !.op = "release", !.phase = "returned",
                                     !.conn = conn, !.connValid = live,
                                     !.ends = Len(r.ended),
                                     !.sizeBefore = Len(activeConnections),
                                     !.threw = r.threw]
    /\ held' = held \ {conn}
    /\ UNCHANGED <<nextConn, tokenFetches, attempts, task, proc, shutdowns>>

\* A caller that holds connection conn gives it back.
ReleaseHeld(conn) ==
    /\ conn \in held
    /\ Release(conn)

\* A caller (task t, keeping to the protocol or not: h) invokes
\* getPoolConnection().  Everything up to the first
\* await runs in one step: the pops, the discards and, when no candidate is
\* left, the call of getConnection, which calls getAuthToken.
AcquireAs(t, h) ==
    /\ proc = "running"
    /\ FreeSlot(t)
    /\ LET r == getPoolConnectionScan(activeConnections, valid)
           n == Len(r.discarded)
       IN  /\ r.create => tokenFetches < MaxFetches
           /\ \E o \in [Range(r.discarded) -> EndOutcomes] :
                EndIgnored(r.discarded, o)
           /\ activeConnections' = r.pool
           /\ tokenFetches' = IF r.create
                              THEN getConnectionCall(tokenFetches).fetches
                              ELSE tokenFetches
           /\ attempts' = IF r.create THEN attempts + 1 ELSE attempts
           /\ task' = [task EXCEPT ![t] =
                          IF r.create
                          THEN TaskAt("acquire", "token",
                                      getConnectionCall(tokenFetches).fetchNo,
                                      h)
                          ELSE IdleTask]
           /\ held' = IF h /\ r.conn # 0 THEN held \cup {r.conn} ELSE held
           /\ lastPush' = IF r.pool # activeConnections THEN 0 ELSE lastPush
           /\ obs' = [NoObs EXCEPT !.op = "acquire",
                                   !.phase = IF r.create THEN "creating"
                                                         ELSE "returned",
                                   !.conn = r.conn,
                                   !.connValid = (r.conn # 0 /\ valid[r.conn]),
                                   !.ends = n,
                                   !.discarded = Range(r.discarded),
                                   !.sizeBefore = Len(activeConnections),
                                   !.fetches = tokenFetches' - tokenFetches,
                                   !.pushedBefore = lastPush,
                                   !.pushedLive =
                                       (lastPush # 0 /\ valid[lastPush]),
                                   !.wasHeld = (r.conn \in held)]
    /\ UNCHANGED <<nextConn, proc, shutdowns>>

\* A caller that hands back what it was given, any way it likes.
Acquire(t) == AcquireAs(t, FALSE)

\* A caller that keeps to the pool's protocol: it holds what it was given
\* until it releases it, once.
AcquireHeld(t) == AcquireAs(t, TRUE)

\* A connection stops being usable (the server closes it, the network drops).
Expire(c) ==
    /\ proc = "running"
    /\ c \in 1..nextConn
    /\ valid[c]
    /\ valid' = [valid EXCEPT ![c] = FALSE]
    /\ UNCHANGED <<activeConnections, nextConn, tokenFetches, attempts, task,
                   proc, pendingRejection, shutdowns, lastPush, held, obs>>

\* ------------------------------------------------------------- handlers
\* A /health (k = "health") or /students (k = "students") request arrives:
\* the handler calls getConnection, which calls getAuthToken and awaits.
StartRequest(t, k) ==
    /\ proc = "running"
    /\ FreeSlot(t)
    /\ tokenFetches < MaxFetches
    /\ tokenFetches' = getConnectionCall(tokenFetches).fetches
    /\ attempts' = attempts + 1
    /\ task' = [task EXCEPT ![t] =
                   TaskAt(k, "token", getConnectionCall(tokenFetches).fetchNo,
                          FALSE)]
    /\ UNCHANGED <<activeConnections, valid, nextConn, proc,
                   pendingRejection, shutdowns, lastPush, held, obs>>

\* The response the handler of kind k sends when its try block raised e.
handlerCatch(k, e) == IF k = "health" THEN healthCatch(e) ELSE studentsCatch(e)

\* getConnection threw e in task t, at stage st, the underlying failure being
\* cause: what the caller of getConnection does with it.  The startup test
\* logs it; a handler answers from its catch block (no connection was
\* obtained, so the finally of /students closes nothing); getPoolConnection
\* passes the rejection on to its caller.
GetConnectionFailed(t, st, cause, e) ==
    LET k == task[t].kind IN
    /\ task' = [task EXCEPT ![t] =
                   IF k = "startup" THEN [@ EXCEPT !.pc = "done"] ELSE IdleTask]
    /\ obs' = [NoObs EXCEPT !.op = k, !.phase = "failed",
                            !.stage = st, !.cause = cause, !.err = e,
                            !.resp = IF k \in {"health", "students"}
                                     THEN handlerCatch(k, e) ELSE NoResponse,
                            !.sizeBefore = Len(activeConnections),
                            !.authErr = IF st = "token"
                                        THEN getAuthTokenCatch(cause)
                                        ELSE NoError]

\* The token request of task t fails with e.
TokenFailed(t) ==
    /\ proc = "running"
    /\ task[t].pc = "token"
    /\ \E e \in TokenErrors :
         GetConnectionFailed(t, "token", e, getConnectionCatch(getAuthTokenCatch(e)))
    /\ UNCHANGED <<activeConnections, valid, nextConn, tokenFetches, attempts,
                   proc, pendingRejection, shutdowns, lastPush, held>>

\* The token request of task t succeeds: getConnection goes on to
\* mariadb.createConnection with the token as password.
TokenDone(t) ==
    /\ proc = "running"
    /\ task[t].pc = "token"
    /\ task' = [task EXCEPT ![t].pc = "connect",
                            ![t].token = task[t].fetchNo]
    /\ UNCHANGED <<activeConnections, valid, nextConn, tokenFetches, attempts,
                   proc, pendingRejection, shutdowns, lastPush, held, obs>>

\* mariadb.createConnection of task t fails with e.
ConnectFailed(t) ==
    /\ proc = "running"
    /\ task[t].pc = "connect"
    /\ \E e \in ConnectErrors :
         GetConnectionFailed(t, "connect", e, getConnectionCatch(e))
    /\ UNCHANGED <<activeConnections, valid, nextConn, tokenFetches, attempts,
                   proc, pendingRejection, shutdowns, lastPush, held>>

\* mariadb.createConnection of task t succeeds with a new connection c.  The
\* startup test ends it; a handler goes on to ping / query; getPoolConnection
\* returns it to its caller.
ConnectDone(t) ==
    /\ proc = "running"
    /\ task[t].pc = "connect"
    /\ nextConn < MaxConns
    /\ LET c == nextConn + 1
           k == task[t].kind
       IN  /\ nextConn' = c
           /\ held' = IF k = "acquire" /\ task[t].holder
                      THEN held \cup {c} ELSE held
           /\ IF k = "startup"
              THEN /\ \E o \in EndOutcomes :
                        /\ valid' = [valid EXCEPT ![c] = (o # "ok")]
                        /\ pendingRejection' = (pendingRejection \/ o = "reject")
                   /\ task' = [task EXCEPT ![t] = [@ EXCEPT !.pc = "done",
                                                            !.conn = c]]
                   /\ obs' = [NoObs EXCEPT !.op = k,
                                           !.phase = "responded", !.conn = c,
                                           !.connValid = TRUE, !.ends = 1,
                                           !.sizeBefore = Len(activeConnections)]
              ELSE /\ valid' = [valid EXCEPT ![c] = TRUE]
                   /\ UNCHANGED pendingRejection
                   /\ IF k = "acquire"
                      THEN /\ task' = [task EXCEPT ![t] = IdleTask]
                           /\ obs' = [NoObs EXCEPT
                                         !.op = k,
                                         !.phase = "created", !.conn = c,
                                         !.connValid = TRUE,
                                         !.sizeBefore = Len(activeConnections)]
                      ELSE /\ task' = [task EXCEPT ![t] = [@ EXCEPT
                                                              !.pc = "use",
                                                              !.conn = c]]
                           /\ obs' = obs
    /\ UNCHANGED <<activeConnections, tokenFetches, attempts, proc, shutdowns,
                   lastPush>>

\* Variant: /health ends its connection after the ping, without a finally.
handlerFinallyStudentsOnly(k, conn) ==
    IF conn # 0 /\ k = "students" THEN <<conn>> ELSE <<>>

\* Variant: /students has no finally block.
handlerFinallyHealthOnly(k, conn) ==
    IF conn # 0 /\ k = "health" THEN <<conn>> ELSE <<>>

\* The end() calls the finally block of a handler makes on conn:
\* /health: "finally { try { conn.end() } catch ... }";
\* /students: "finally { if (conn) { try { conn.end() } catch ... } }".
handlerFinally(k, conn) == IF conn # 0 THEN <<conn>> ELSE <<>>

\* conn.ping() (/health) or conn.query() (/students) of task t settles: with
\* failure e, or successfully when ok.  The rest of the handler runs in the
\* same step: the finally block ends the connection, the response is sent.
UseSettled(t, ok, e) ==
    /\ proc = "running"
    /\ task[t].pc = "use"
    /\ LET k == task[t].kind
           c == task[t].conn
           closes == handlerFinally(k, c)
       IN  /\ \E o \in EndOutcomes :
                EndIgnored(closes, [x \in Range(closes) |-> o])
           /\ task' = [task EXCEPT ![t] = IdleTask]
           /\ obs' = [NoObs EXCEPT
                         !.op = k, !.phase = "responded",
                         !.stage = IF ok THEN "none" ELSE "use",
                         !.cause = e, !.err = e,
                         !.resp = IF ok
                                  THEN IF k = "health"
                                       THEN Response(200, "text", MsgHealthOK)
                                       ELSE Response(200, "rows", <<>>)
                                  ELSE handlerCatch(k, e),
                         !.conn = c, !.connValid = valid[c],
                         !.ends = Len(closes),
                         !.sizeBefore = Len(activeConnections)]
    /\ UNCHANGED <<activeConnections, nextConn, tokenFetches, attempts, proc, shutdowns,
                   lastPush, held>>

UseDone(t) == UseSettled(t, TRUE, NoError)

UseFailed(t) == \E e \in UseErrors : UseSettled(t, FALSE, e)

\* ------------------------------------------------------------- shutdown
\* "activeConnections.map(conn => { try { return conn.end(); } catch (e) {
\* return Promise.resolve(); } })": the connections end() is called on.
shutdownCloses(p) == p

\* Whether Promise.all over the promises of the map resolves: a synchronous
\* throw was replaced by Promise.resolve(), a rejected promise rejects it.
shutdownResolves(o) == \A c \in DOMAIN o : o[c] # "reject"

\* SIGTERM or SIGINT arrives: the handler calls end() on the pooled
\* connections and leaves process.exit(0) to the then-callback of Promise.all.
Signal(name) ==
    /\ proc = "running"
    /\ LET cs == shutdownCloses(activeConnections)
       IN  \E o \in [Range(cs) -> EndOutcomes] :
             /\ valid' = validAfterEnd(cs, o)
                      /\ shutdowns' = shutdowns \cup
                   {IF shutdownResolves(o) THEN "resolves" ELSE "rejects"}
             /\ obs' = [NoObs EXCEPT !.op = name, !.phase = "closing",
                                     !.ends = Len(cs),
                                     !.sizeBefore = Len(activeConnections)]
    /\ UNCHANGED <<activeConnections, nextConn, tokenFetches, attempts, task, proc,
                   pendingRejection, lastPush, held>>

\* The Promise.all of a signal handler settles: its then-callback calls
\* process.exit(0); if it rejected, the callback never runs and the rejection
\* of the chain is handled by nobody.
ShutdownSettle(s) ==
    /\ proc = "running"
    /\ s \in shutdowns
    /\ shutdowns' = shutdowns \ {s}
    /\ IF s = "resolves"
       THEN proc' = "exit0" /\ UNCHANGED pendingRejection
       ELSE pendingRejection' = TRUE /\ UNCHANGED proc
    /\ obs' = [NoObs EXCEPT !.op = "shutdown", !.phase = s,
                            !.sizeBefore = Len(activeConnections)]
    /\ UNCHANGED <<activeConnections, valid, nextConn, tokenFetches, attempts, task,
                   lastPush, held>>

\* Node reports an unhandled rejection: by default it only warns (before
\* Node 15) or raises an uncaught exception that ends the process (since).
UnhandledRejection ==
    /\ proc = "running"
    /\ pendingRejection
    /\ pendingRejection' = FALSE
    /\ proc' \in {"running", "crashed"}
    /\ UNCHANGED <<activeConnections, valid, nextConn, tokenFetches, attempts,
                   task, shutdowns, lastPush, held, obs>>

\* ------------------------------------------------------------- specifications
\* The awaits of getConnection settling, for whoever called it.
Awaits ==
    \/ \E t \in Tasks : TokenFailed(t)
    \/ \E t \in Tasks : TokenDone(t)
    \/ \E t \in Tasks : ConnectFailed(t)
    \/ \E t \in Tasks : ConnectDone(t)

\* What the environment does to the process and its connections.
Environment ==
    \/ \E c \in ConnIds : Expire(c)
    \/ UnhandledRejection

\* Termination signals and the shutdown they start.
Signals ==
    \/ \E n \in {"SIGTERM", "SIGINT"} : Signal(n)
    \/ \E s \in {"resolves", "rejects"} : ShutdownSettle(s)

\* The HTTP requests.
Requests ==
    \/ \E t \in Tasks, k \in {"health", "students"} : StartRequest(t, k)
    \/ \E t \in Tasks : UseDone(t)
    \/ \E t \in Tasks : UseFailed(t)

\* Calls of the pool's two functions.
PoolCalls ==
    \/ \E t \in Tasks : Acquire(t)
    \/ \E c \in 0..MaxConns : Release(c)

Next == Awaits \/ Environment \/ Signals \/ Requests \/ PoolCalls

Spec == Init /\ [][Next]_vars

\* The service as it runs: startup test, requests, signals.
NextServer == Awaits \/ Environment \/ Signals \/ Requests

SpecServer == Init /\ [][NextServer]_vars

\* The pool under callers of getPoolConnection and releaseConnection.
NextPool == Awaits \/ Environment \/ PoolCalls

SpecPool == Init /\ [][NextPool]_vars

\* The pool under such callers, with termination signals.
NextShutdown == Awaits \/ Environment \/ PoolCalls \/ Signals

SpecShutdown == Init /\ [][NextShutdown]_vars

\* The requests and the pool's callers while the startup test is still waiting
\* for its token: every end() in these runs is a handler's cleanup, a discard
\* in getPoolConnection or the close in releaseConnection.
RequestTasks == Tasks \ {StartupTask}

RequestAwaits ==
    \/ \E t \in RequestTasks : TokenFailed(t)
    \/ \E t \in RequestTasks : TokenDone(t)
    \/ \E t \in RequestTasks : ConnectFailed(t)
    \/ \E t \in RequestTasks : ConnectDone(t)

NextCleanup == RequestAwaits \/ Environment \/ Requests \/ PoolCalls

SpecCleanup == Init /\ [][NextCleanup]_vars

\* The pool under callers that keep to its protocol: each releases only a
\* connection it holds, once.
HolderCalls ==
    \/ \E t \in Tasks : AcquireHeld(t)
    \/ \E c \in ConnIds : ReleaseHeld(c)

NextHolders == Awaits \/ Environment \/ HolderCalls

SpecHolders == Init /\ [][NextHolders]_vars

\* The startup test and the requests, without termination signals, every
\* external call being answered in the end: a token request, a connection
\* attempt, a ping or a query that is pending settles, one way or the other.
NextRequests == Awaits \/ Environment \/ Requests

ExternalCallsSettle ==
    \A t \in Tasks :
        /\ WF_vars(TokenFailed(t) \/ TokenDone(t))
        /\ WF_vars(ConnectFailed(t) \/ ConnectDone(t))
        /\ WF_vars(UseFailed(t) \/ UseDone(t))

SpecLive == Init /\ [][NextRequests]_vars /\ ExternalCallsSettle

\* ------------------------------------------------------------- properties
HasPrefix(msg, pat) == Len(msg) >= Len(pat) /\ SubSeq(msg, 1, Len(pat)) = pat

\* C1: for every sequence and interleaving of getPoolConnection and
\* releaseConnection calls, activeConnections never holds more than
\* connectionLimit (5) connections.
C1_PoolNeverExceedsCap == Len(activeConnections) <= connectionLimit

\* C1 witness: a live connection was released into a full pool, and the pool
\* is still at the cap.
C1_Witness ==
    /\ obs.op = "release" /\ obs.connValid
    /\ obs.sizeBefore = connectionLimit
    /\ Len(activeConnections) = connectionLimit

\* C2: when a connection was released while live with the pool under the cap,
\* the next getPoolConnection, the connection being still live, returns that
\* same connection and makes no getAuthToken call.
C2_ReleasedIsReusedWithoutToken ==
    (obs.op = "acquire" /\ obs.pushedBefore # 0 /\ obs.pushedLive)
        => /\ obs.phase = "returned"
           /\ obs.conn = obs.pushedBefore
           /\ obs.fetches = 0

\* C2 witness: getPoolConnection returned the connection just released, from a
\* pool that held another connection as well.
C2_Witness ==
    /\ obs.op = "acquire" /\ obs.pushedBefore # 0 /\ obs.pushedLive
    /\ obs.conn = obs.pushedBefore
    /\ obs.sizeBefore > 1

\* C3: getPoolConnection never returns a pooled connection whose isValid()
\* was false when popped: it returns the first live candidate, every candidate
\* popped before it was discarded with end(), and when the candidates run out
\* (all popped and discarded) it calls getConnection, whose connection is new.
C3_DeadCandidateNeverReturned ==
    obs.op = "acquire" =>
        /\ obs.phase = "returned" =>
              /\ obs.conn # 0 /\ obs.connValid
              /\ obs.conn \notin obs.discarded
              /\ Len(activeConnections) = obs.sizeBefore - obs.ends - 1
              /\ obs.fetches = 0
        /\ obs.phase = "creating" =>
              /\ obs.ends = obs.sizeBefore
              /\ Len(activeConnections) = 0
              /\ obs.fetches = 1
        /\ obs.phase = "created" => obs.conn # 0 /\ obs.connValid
        /\ \A d \in obs.discarded : ~valid[d]

\* C3 witness: a dead candidate was discarded and getPoolConnection went on to
\* getConnection.
C3_Witness ==
    /\ obs.op = "acquire" /\ obs.phase = "creating"
    /\ obs.ends > 0

\* C4: releasing a connection whose isValid() is false never throws out of
\* releaseConnection and leaves the pool's length unchanged, whatever the pool.
C4_DeadReleaseIsSilent ==
    (obs.op = "release" /\ obs.conn # 0 /\ ~obs.connValid)
        => /\ ~obs.threw
           /\ Len(activeConnections) = obs.sizeBefore

\* C4 witness: a dead connection was released into a pool that holds
\* connections.
C4_Witness ==
    /\ obs.op = "release" /\ obs.conn # 0 /\ ~obs.connValid
    /\ obs.sizeBefore > 0

\* An error carries the "access denied" signal of the token provider.
AccessDeniedMessage(e) == e.hasMessage /\ Includes(e.message, <<"access", "denied">>)

\* C5: when the token request fails with a message containing "access
\* denied", getConnection fails with the error whose message starts
\* "Permission denied", and /health and /students answer 403.
C5_AccessDeniedTokenGives403 ==
    (obs.op \in {"health", "students"} /\ obs.stage = "token"
        /\ AccessDeniedMessage(obs.cause))
        => /\ HasPrefix(obs.err.message, <<"Permission", "denied">>)
           /\ obs.err = NewError(MsgPermissionIAM)
           /\ obs.resp.status = 403

\* C5 witness: /students answered a token failure whose message contains
\* "access denied".
C5_Witness ==
    /\ obs.op = "students" /\ obs.stage = "token"
    /\ AccessDeniedMessage(obs.cause)
    /\ obs.resp.status = 403

\* An error that none of getConnection's and the handlers' tests takes for a
\* permission failure.
NonPermission(e) ==
    /\ e.code # "ER_ACCESS_DENIED_ERROR"
    /\ ~(Truthy(e) /\ Includes(e.message, <<"Permission", "denied">>))
    /\ ~(Truthy(e) /\ Includes(e.message, <<"access", "denied">>))

\* C6: when the token request succeeded and mariadb.createConnection fails
\* with an error that is no permission failure, /students answers 500 with
\* {error: "Failed to retrieve student data."} and /health answers 500 with
\* {status: "ERROR", message: "Health check failed: " + the error's message}.
C6_ConnectFailureGives500 ==
    (obs.stage = "connect" /\ NonPermission(obs.cause)) =>
        /\ obs.op = "students" =>
              obs.resp = Response(500, "error", MsgStudentsFailed)
        /\ obs.op = "health" =>
              obs.resp = Response(500, "status_error",
                                  MsgHealthFailed \o MessageText(obs.cause))

\* C6 witness: /health answered a refused connection.
C6_Witness ==
    /\ obs.op = "health" /\ obs.stage = "connect"
    /\ NonPermission(obs.cause) /\ obs.cause.hasMessage
    /\ obs.resp.status = 500

\* C7: a /students request that obtained a connection calls end() on it
\* exactly once before the handler finishes, on every path: the query
\* succeeds, the query fails and 403 is answered, the query fails and 500 is
\* answered.
C7_StudentsEndsOnce ==
    (obs.op = "students" /\ obs.conn # 0)
        => /\ obs.ends = 1
           /\ obs.resp.status \in {200, 403, 500}

\* C7 witness: the query failed and /students answered 403.
C7_Witness ==
    /\ obs.op = "students" /\ obs.conn # 0
    /\ obs.stage = "use" /\ obs.resp.status = 403
    /\ obs.ends = 1

\* C8: once the Promise.all of a signal handler has settled, the process has
\* exited with status 0, also when closing pooled connections failed.
C8_ShutdownExitsZero == obs.op = "shutdown" => proc = "exit0"

\* C9: a connection used by a successful /health or /students request while
\* the pool is under the cap is in the pool afterwards.
C9_HandlersReturnToPool ==
    (obs.op \in {"health", "students"} /\ obs.resp.status = 200
        /\ obs.sizeBefore < connectionLimit)
        => obs.conn \in Range(activeConnections)

\* C10: releasing a connection whose isValid() is false calls end() on it and
\* does not keep it.
C10_DeadReleaseCloses ==
    (obs.op = "release" /\ obs.conn # 0 /\ ~obs.connValid)
        => /\ obs.ends = 1
           /\ Len(activeConnections) = obs.sizeBefore

\* C11: releasing a live connection below the limit appends exactly that
\* connection to the idle pool and closes nothing; releasing a live connection
\* at the limit closes it once and leaves the pool as it was; and the pool
\* grows in no step other than the release of a connection that reported
\* itself valid in that call.
C11_ReleaseStep ==
    /\ Len(activeConnections') > Len(activeConnections)
         => /\ obs'.op = "release"
            /\ obs'.connValid
            /\ obs'.sizeBefore = Len(activeConnections)
            /\ activeConnections' = Append(activeConnections, obs'.conn)
    /\ (obs'.op = "release" /\ obs'.connValid
            /\ obs'.sizeBefore < connectionLimit)
         => /\ Len(activeConnections') = obs'.sizeBefore + 1
            /\ activeConnections'[Len(activeConnections')] = obs'.conn
            /\ obs'.ends = 0
    /\ (obs'.op = "release" /\ obs'.connValid
            /\ obs'.sizeBefore >= connectionLimit)
         => /\ activeConnections' = activeConnections
            /\ obs'.ends = 1
            /\ ~obs'.threw

C11_ReleaseGrowsPoolByOne == [][C11_ReleaseStep]_vars

\* A live connection was pushed onto a non-empty pool.
C11_Witness ==
    /\ obs.op = "release" /\ obs.connValid
    /\ obs.sizeBefore > 0 /\ obs.sizeBefore < connectionLimit
    /\ Len(activeConnections) = obs.sizeBefore + 1
    /\ obs.ends = 0

\* C12: a failure of conn.end(), thrown or rejected, in getPoolConnection's
\* discard, in releaseConnection's close or in a handler's cleanup is swallowed:
\* the process is not terminated, getPoolConnection and releaseConnection do
\* not throw, and the response is the one the request's own outcome decides.
C12_CloseFailureSwallowed ==
    /\ proc # "crashed"
    /\ obs.op \in {"acquire", "release"} => ~obs.threw
    /\ (obs.op \in {"health", "students"} /\ obs.phase = "responded")
         => obs.resp = IF obs.cause # NoError THEN handlerCatch(obs.op, obs.cause)
                       ELSE IF obs.op = "health"
                            THEN Response(200, "text", MsgHealthOK)
                            ELSE Response(200, "rows", <<>>)

C14_Step ==
    /\ attempts' = tokenFetches'
    /\ attempts' - attempts = tokenFetches' - tokenFetches
    /\ \A t \in Tasks :
         /\ (task[t].pc # "token" /\ task'[t].pc = "token")
              => /\ attempts' = attempts + 1
                 /\ task'[t].fetchNo > tokenFetches
                 /\ task'[t].fetchNo <= tokenFetches'
         /\ (task[t].pc = "token" /\ task'[t].pc = "connect")
              => /\ task'[t].token = task[t].fetchNo
                 /\ task'[t].token # 0
    /\ \A t, u \in Tasks :
         (t # u /\ task'[t].pc \in {"token", "connect"}
                /\ task'[u].pc \in {"token", "connect"})
           => task'[t].fetchNo # task'[u].fetchNo

C14_OwnFreshToken == attempts = tokenFetches /\ [][C14_Step]_vars

\* The startup test connected with the first token and a request's
\* getConnection is connecting with the second.
C14_Witness ==
    /\ task[StartupTask].pc = "done" /\ task[StartupTask].token = 1
    /\ \E t \in RequestTasks :
         /\ task[t].kind \in {"health", "students"}
         /\ task[t].pc = "connect" /\ task[t].token = 2
    /\ attempts = 2 /\ tokenFetches = 2

\* The indicators getAuthToken looks for: the name of the failure, or one of
\* three words in its message.
TokenPermissionIndicator(e) ==
    \/ e.name \in {"CredentialsProviderError", "AccessDenied"}
    \/ /\ e.hasMessage
       /\ \/ Includes(e.message, <<"credentials">>)
          \/ Includes(e.message, <<"permission">>)
          \/ Includes(e.message, <<"access", "denied">>)

\* C15: when the token request fails, getAuthToken raises the permission error
\* with the fixed message if the failure's name or message carries an
\* indicator, and otherwise raises the failure itself, unchanged, also when
\* the failure has no message.
C15_TokenFailureClassified ==
    (obs.stage = "token" /\ obs.phase = "failed")
      => obs.authErr = IF TokenPermissionIndicator(obs.cause)
                       THEN NewError(MsgPermissionIAM)
                       ELSE obs.cause

\* C16: when mariadb.createConnection fails with code ER_ACCESS_DENIED_ERROR,
\* getConnection raises a permission error (its message starts with
\* "Permission denied"), and /health and /students answer 403 with the
\* permission message.
C16_AccessDeniedConnectGives403 ==
    (obs.stage = "connect" /\ obs.phase = "failed"
        /\ obs.cause.code = "ER_ACCESS_DENIED_ERROR")
      => /\ obs.err.hasMessage
         /\ HasPrefix(obs.err.message, <<"Permission", "denied">>)
         /\ obs.op = "health"
              => obs.resp = Response(403, "status_error", MsgPermissionIAM)
         /\ obs.op = "students"
              => obs.resp = Response(403, "error", MsgPermissionIAM)

\* /health was answered 403 after the database refused the connection.
C16_Witness ==
    /\ obs.op = "health" /\ obs.stage = "connect" /\ obs.phase = "failed"
    /\ obs.cause.code = "ER_ACCESS_DENIED_ERROR"
    /\ obs.err = NewError(MsgPermissionDB)
    /\ obs.resp.status = 403

\* C17 as stated: a failure of the query of /students is answered 500 with the
\* fixed body, whatever the failure's message or code.
C17_QueryFailureAlways500 ==
    (obs.op = "students" /\ obs.stage = "use" /\ obs.phase = "responded")
      => obs.resp = Response(500, "error", MsgStudentsFailed)

\* What /students takes for a permission failure: a failure with a non-empty
\* message that contains "Permission denied" or "access denied", or comes
\* with code ER_ACCESS_DENIED_ERROR.
QueryPermissionSignal(e) ==
    /\ e.hasMessage /\ Len(e.message) > 0
    /\ \/ Includes(e.message, <<"Permission", "denied">>)
       \/ Includes(e.message, <<"access", "denied">>)
       \/ e.code = "ER_ACCESS_DENIED_ERROR"

\* C17, amended: a failure of the query of /students is answered 500 with the
\* fixed body unless it carries a permission signal, and 403 with the
\* permission message if it does.
C17_QueryFailureAnswer ==
    (obs.op = "students" /\ obs.stage = "use" /\ obs.phase = "responded")
      => obs.resp = IF QueryPermissionSignal(obs.cause)
                    THEN Response(403, "error", MsgPermissionIAM)
                    ELSE Response(500, "error", MsgStudentsFailed)

\* A query failed for a reason other than permissions and was answered 500.
C17_Witness ==
    /\ obs.op = "students" /\ obs.stage = "use" /\ obs.phase = "responded"
    /\ obs.cause.code = "ER_NO_SUCH_TABLE"
    /\ obs.resp = Response(500, "error", MsgStudentsFailed)

\* C18: called with n connections in the pool, getPoolConnection discards at
\* most n candidates and then either returns a pooled connection, having
\* looked at no more than n and made no getConnection call, or makes one
\* getConnection call; the awaits of that call make no further call and end
\* in the new connection or in the call's error; and the pool grows in no
\* step of getPoolConnection.
C18_Step ==
    /\ (obs'.op = "acquire" /\ obs'.phase \in {"returned", "creating"})
         => /\ obs'.ends <= obs'.sizeBefore
            /\ Len(activeConnections') <= obs'.sizeBefore - obs'.ends
            /\ obs'.phase = "returned"
                 => /\ obs'.ends + 1 <= obs'.sizeBefore
                    /\ obs'.conn # 0
                    /\ obs'.fetches = 0
            /\ obs'.phase = "creating"
                 => /\ obs'.conn = 0
                    /\ obs'.fetches = 1
    /\ obs'.op = "acquire"
         => Len(activeConnections') <= Len(activeConnections)
    /\ \A t \in Tasks :
         (task[t].kind = "acquire" /\ task'[t] # task[t])
           => /\ attempts' = attempts
              /\ tokenFetches' = tokenFetches
              /\ activeConnections' = activeConnections
              /\ \/ task[t].pc = "token" /\ task'[t].pc = "connect"
                 \/ /\ task'[t] = IdleTask
                    /\ obs'.op = "acquire"
                    /\ \/ /\ obs'.phase = "created"
                          /\ obs'.conn = nextConn' /\ nextConn' = nextConn + 1
                          /\ obs'.connValid
                       \/ /\ obs'.phase = "failed"
                          /\ obs'.err # NoError

C18_AcquireIsBounded == [][C18_Step]_vars

\* getPoolConnection found two connections in the pool, discarded both and
\* called getConnection.
C18_Witness ==
    /\ obs.op = "acquire" /\ obs.phase = "creating"
    /\ obs.sizeBefore = 2 /\ obs.ends = 2 /\ obs.fetches = 1
    /\ activeConnections = <<>>

\* C19: a /health request that obtained a connection calls end() on it exactly
\* once, whether the ping succeeded or failed; when the ping failed the answer
\* is 403 or 500, never 200; and once the handler has finished, its
\* connection is neither in the idle pool nor still in a handler's hands
\* without end() having been called on it.
C19_HealthEndsOnPingFailure ==
    (obs.op = "health" /\ obs.phase = "responded")
      => /\ obs.conn # 0
         /\ obs.ends = 1
         /\ obs.conn \notin Range(activeConnections)
         /\ \A t \in Tasks : task[t].pc = "use" => task[t].conn # obs.conn
         /\ obs.stage = "use"
              => /\ obs.cause # NoError
                 /\ obs.resp.status \in {403, 500}
                 /\ obs.resp.kind = "status_error"
         /\ obs.stage = "none" => obs.resp = Response(200, "text", MsgHealthOK)

\* The ping of a /health request failed; end() was called once and the
\* answer was 500.
C19_Witness ==
    /\ obs.op = "health" /\ obs.phase = "responded" /\ obs.stage = "use"
    /\ obs.conn # 0 /\ obs.ends = 1
    /\ obs.resp.status = 500

\* C20: if every external call settles, every /health and /students request
\* is answered in the end, and the answer's status is 200, 403 or 500.
C20_EveryRequestAnswered ==
    /\ [](obs.op \in {"health", "students"}
            => obs.resp.status \in {200, 403, 500})
    /\ \A t \in RequestTasks :
         (task[t].kind \in {"health", "students"} /\ task[t].pc # "idle")
            ~> (task[t].pc = "idle")

================================================================================
